---- MODULE Spec2Model ----
(***************************************************************************)
(* Rolling-window z-score anomaly detector of Problem1.py, and the         *)
(* simulated monitoring loop of mock_monitor.py.                           *)
(*                                                                         *)
(* Timestamps are whole seconds (datetime values are compared and          *)
(* subtracted only), sample values are small integers plus one token for   *)
(* a non-finite float.  The specifications share the state:                   *)
(*   Spec      sequential calls, any timestamp order, several keys         *)
(*   SpecEval  sequential calls of a steady feed, long enough windows for  *)
(*             the z-score rule to fire                                    *)
(*   SpecOne   sequential calls on one key, any timestamp order, windows   *)
(*             of three and more samples left by an eviction               *)
(*   SpecConc  two threads calling push_sample with no lock, one step per  *)
(*             statement of push_sample                                    *)
(*   SpecMon   the loop of start_realtime_monitoring_loop, one step per    *)
(*             iteration, which always comes (weak fairness)               *)
(***************************************************************************)
EXTENDS Integers, Sequences, FiniteSets, TLC

VARIABLES buffers, ingested, now, call, ret, sink, view, thr,
          current_room_index, reading_count, new_data_row

monVars == <<current_room_index, reading_count, new_data_row>>

vars == <<buffers, ingested, now, call, ret, sink, view, thr, monVars>>

\* ---------------------------------------------------------------- constants
W_SECONDS == 30 * 60

\* Z_THRESHOLD = 2.5 as the fraction Z_NUM / Z_DEN
Z_NUM == 5
Z_DEN == 2

\* EPS = 1e-9 as its reciprocal
EPS_INV == 1000000000

\* ------------------------------------------------------------------- bounds
MaxPushes == 3
MaxEvalPushes == 9
MaxConcCalls == 3
MaxOnePushes == 5
MaxNow == 1

\* ------------------------------------------------------------------- inputs
\* the token for a non-finite float value (NaN, +Inf, -Inf)
NaN == 999999

IsFinite(v) == v # NaN

Keys == {<<"A", "co2">>, <<"B", "co2">>, <<"A", "humidity">>}
Times == {0, 1, W_SECONDS + 1}
Values == {10, 100, NaN}

EvalKeys == {<<"A", "co2">>, <<"B", "co2">>}
EvalValues == {10, 100}

OneKeys == {<<"A", "co2">>}
OneValues == {10, 100}

ConcKeys == {<<"A", "co2">>}
ConcValues == {10, 100}
Threads == {1, 2}

\* ------------------------------------------------------------------ helpers
Last(s) == s[Len(s)]

RECURSIVE SumTo(_, _)
SumTo(s, n) == IF n = 0 THEN 0 ELSE s[n] + SumTo(s, n - 1)

SumSeq(s) == SumTo(s, Len(s))

Abs(x) == IF x < 0 THEN 0 - x ELSE x

\* a key that drops the metric
KeyRoomOnly(roomId, metric) == <<roomId, "co2">>

\* key = (roomId, metric)
KeyOf(roomId, metric) == <<roomId, metric>>

\* a cutoff with the sign of the window length flipped
CutoffAhead(ts) == ts + W_SECONDS

\* cutoff = ts - timedelta(seconds=W_SECONDS)
Cutoff(ts) == ts - W_SECONDS

\* an eviction test that also drops the sample on the boundary
StaleInclusive(sample, cutoff) == sample[1] <= cutoff

\* an eviction test that keeps the sample one unit below the boundary
StaleOffByOne(sample, cutoff) == sample[1] < cutoff - 1

\* buf[0][0] < cutoff
Stale(sample, cutoff) == sample[1] < cutoff

\* an eviction that drops every stale sample, wherever it stands
RECURSIVE EvictFilter(_, _)
EvictFilter(buf, cutoff) ==
    IF buf = <<>> THEN <<>>
    ELSE IF Stale(buf[1], cutoff) THEN EvictFilter(Tail(buf), cutoff)
    ELSE <<buf[1]>> \o EvictFilter(Tail(buf), cutoff)

\* an eviction that tests the front once: if instead of while
EvictOnce(buf, cutoff) ==
    IF buf # <<>> /\ Stale(buf[1], cutoff) THEN Tail(buf) ELSE buf

\* while buf and buf[0][0] < cutoff: buf.popleft()
RECURSIVE Evict(_, _)
Evict(buf, cutoff) ==
    IF buf # <<>> /\ Stale(buf[1], cutoff)
    THEN Evict(Tail(buf), cutoff)
    ELSE buf

\* buffers.setdefault(key, deque())
SetDefault(bufs, key) ==
    [k \in (DOMAIN bufs) \cup {key} |->
        IF k \in DOMAIN bufs THEN bufs[k] ELSE <<>>]

\* the buffers map after lines 14-20 of push_sample
Pushed(bufs, roomId, metric, ts, value) ==
    LET key == KeyOf(roomId, metric)
        b0  == SetDefault(bufs, key)
        b1  == Append(b0[key], <<ts, value>>)
    IN  [b0 EXCEPT ![key] = Evict(b1, Cutoff(ts))]

\* a call of check_anomaly placed before the purge loop
EvaluatedBeforePurge(bufs, roomId, metric, ts, value) ==
    LET key == KeyOf(roomId, metric)
    IN  [SetDefault(bufs, key) EXCEPT ![key] = Append(@, <<ts, value>>)]

\* the buffers map when line 21 calls check_anomaly
Evaluated(bufs, roomId, metric, ts, value) ==
    Pushed(bufs, roomId, metric, ts, value)

\* buf = buffers.get((roomId, metric)); no deque is the empty window
WindowRead(bufs, roomId, metric) ==
    IF KeyOf(roomId, metric) \in DOMAIN bufs
    THEN bufs[KeyOf(roomId, metric)]
    ELSE <<>>

\* datetime.isoformat(): the timestamp split into its printed fields
IsoFormat(ts) == <<ts \div 3600, (ts \div 60) % 60, ts % 60>>

\* vals = [v for (_, v) in buf]
Vals(buf) == [i \in 1..Len(buf) |-> buf[i][2]]

AllFinite(vals) == \A i \in 1..Len(vals) : IsFinite(vals[i])

\* a deviation that is not centred on the mean
DevUncentred(vals) == Len(vals) * Last(vals)

\* n * (latest - mu), with mu = sum(vals)/n
Dev(vals) == Len(vals) * Last(vals) - SumSeq(vals)

\* n^2 * var, with var = sum((v-mu)**2 for v in vals)/n
VarN(vals) ==
    Len(vals) * SumSeq([i \in 1..Len(vals) |-> vals[i] * vals[i]])
        - SumSeq(vals) * SumSeq(vals)

\* the rounding the integer form below leaves out is smaller than one unit:
\* 4 * |Dev| * (Z_NUM * n * EPS) < 1
EpsNegligible(vals) == 4 * Abs(Dev(vals)) * Z_NUM * Len(vals) < EPS_INV

\* the squared score compared with the threshold itself
ZExceedsSquaredScore(vals) ==
    /\ AllFinite(vals)
    /\ Z_DEN * Abs(Dev(vals)) * Abs(Dev(vals)) > Z_NUM * VarN(vals)

\* abs(z) > Z_THRESHOLD with z = (latest - mu) / (sigma + EPS).
\* With A = |Dev|, D = VarN, d = Z_NUM*n*EPS: |z| > Z_NUM/Z_DEN iff
\* Z_DEN*A - d > Z_NUM*sqrt(D), iff (Z_DEN*A)^2 - (2*Z_DEN*A*d - d^2) >
\* Z_NUM^2*D; the bracket lies in (0,1) for A >= 1 (EpsNegligible), both
\* other terms are integers, and for A = 0 the test is false (EPS > 0).
\* A non-finite value makes z NaN and every comparison with NaN false.
ZExceeds(vals) ==
    /\ AllFinite(vals)
    /\ (Z_DEN * Abs(Dev(vals))) * (Z_DEN * Abs(Dev(vals)))
           > Z_NUM * Z_NUM * VarN(vals)

\* int(datetime.utcnow().timestamp())
IdStamp(nw) == nw

\* f"anom-{roomId}-{metric}-{int(datetime.utcnow().timestamp())}"
AnomalyId(roomId, metric, nw) == <<"anom", roomId, metric, IdStamp(nw)>>

NoZ == [dev |-> 0, varn |-> 0, n |-> 0]

NoneRet ==
    [kind |-> "None", id |-> <<>>, roomId |-> "", tsStart |-> <<>>,
     tsEnd |-> <<>>, metric |-> "", value |-> 0, z |-> NoZ, reason |-> ""]

RaiseRet(exc) == [NoneRet EXCEPT !.kind = "raise", !.reason = exc]

\* a record whose window end is the evaluation time
AnomalyRecordClockEnd(buf, roomId, metric, nw) ==
    [kind |-> "anomaly",
     id |-> AnomalyId(roomId, metric, nw),
     roomId |-> roomId,
     tsStart |-> IsoFormat(buf[1][1]),
     tsEnd |-> IsoFormat(nw),
     metric |-> metric,
     value |-> Last(Vals(buf)),
     z |-> [dev |-> Dev(Vals(buf)), varn |-> VarN(Vals(buf)),
            n |-> Len(buf)],
     reason |-> "rolling-z"]

\* the anomaly dict of lines 35-44; z is kept as its exact parts
AnomalyRecord(buf, roomId, metric, nw) ==
    [kind |-> "anomaly",
     id |-> AnomalyId(roomId, metric, nw),
     roomId |-> roomId,
     tsStart |-> IsoFormat(buf[1][1]),
     tsEnd |-> IsoFormat(Last(buf)[1]),
     metric |-> metric,
     value |-> Last(Vals(buf)),
     z |-> [dev |-> Dev(Vals(buf)), varn |-> VarN(Vals(buf)),
            n |-> Len(buf)],
     reason |-> "rolling-z"]

\* a gate that tests the length only: len(None) is never guarded
GateLenOnly(bufs, key) ==
    /\ key \in DOMAIN bufs
    /\ Len(bufs[key]) < 3

\* if not buf or len(buf) < 3: return None
Gate(bufs, key) ==
    \/ key \notin DOMAIN bufs
    \/ bufs[key] = <<>>
    \/ Len(bufs[key]) < 3

\* lines 24-34: what check_anomaly decides, before the sink call.  Past the
\* gate, line 27 iterates buf (TypeError on None) and line 29 divides by n.
Decision(bufs, key) ==
    IF Gate(bufs, key) THEN "None"
    ELSE IF key \notin DOMAIN bufs THEN "TypeError"
    ELSE IF bufs[key] = <<>> THEN "ZeroDivisionError"
    ELSE IF ZExceeds(Vals(bufs[key])) THEN "anomaly"
    ELSE "None"

\* a sink call that is made again when it fails
write_anomaly_retry(sinkOk) ==
    [calls |-> IF sinkOk THEN 1 ELSE 2, failed |-> ~sinkOk]

\* write_anomaly(anomaly): the external sink, which returns or raises
write_anomaly(sinkOk) == [calls |-> 1, failed |-> ~sinkOk]

NoSink == [calls |-> 0, failed |-> FALSE]

\* the sink calls made by one check_anomaly invocation
SinkOf(bufs, roomId, metric, sinkOk) ==
    IF Decision(bufs, KeyOf(roomId, metric)) = "anomaly"
    THEN write_anomaly(sinkOk)
    ELSE NoSink

\* check_anomaly(roomId, metric): the value returned, or the exception
\* that leaves the function when write_anomaly raises
check_anomaly(bufs, roomId, metric, nw, sinkOk) ==
    LET key == KeyOf(roomId, metric)
    IN  IF Decision(bufs, key) = "anomaly"
        THEN IF SinkOf(bufs, roomId, metric, sinkOk).failed
             THEN RaiseRet("SinkError")
             ELSE AnomalyRecord(bufs[key], roomId, metric, nw)
        ELSE IF Decision(bufs, key) = "None" THEN NoneRet
        ELSE RaiseRet(Decision(bufs, key))

\* ------------------------------------------------------- the monitoring loop
\* humidity, temperature and pm2_5 are in tenths of their unit
BASE_READINGS ==
    [r \in {"Lab-A-205", "Lab-B-101", "Lab-C-302"} |->
        CASE r = "Lab-A-205" ->
               [co2 |-> 600, humidity |-> 450, temperature |-> 215,
                pm2_5 |-> 70]
          [] r = "Lab-B-101" ->
               [co2 |-> 750, humidity |-> 400, temperature |-> 220,
                pm2_5 |-> 90]
          [] r = "Lab-C-302" ->
               [co2 |-> 680, humidity |-> 500, temperature |-> 205,
                pm2_5 |-> 65]]

\* list(BASE_READINGS.keys()), in insertion order
ROOM_IDS == <<"Lab-A-205", "Lab-B-101", "Lab-C-302">>

\* std_dev, line 137
std_dev == [co2 |-> 50, humidity |-> 15, temperature |-> 5, pm2_5 |-> 10]

\* counter % 15 == 0
InjectEvery == 15

\* the draws of random.gauss(0, s): one s below and one s above the mean
Gauss == {0 - 1, 1}

\* the draws of randint and uniform: the two ends of their range
Ends == {0, 1}

\* the loop uses reading_count through % 15 and % 5 and the room index
\* through % len(ROOM_IDS) only: both are kept modulo this period (a
\* count of 0 stands for the multiples of the period)
CountCycle == InjectEvery * Len(ROOM_IDS)

Max2(a, b) == IF a > b THEN a ELSE b

Min2(a, b) == IF a < b THEN a ELSE b

NoReading ==
    [id |-> 0, roomId |-> "", co2 |-> 0, humidity |-> 0, temperature |-> 0,
     pm2_5 |-> 0]

\* lines 139-147: the reading before any injection
PlainReading(room_id, counter, g) ==
    [id |-> counter,
     roomId |-> room_id,
     co2 |-> Max2(0, BASE_READINGS[room_id].co2 + g[1] * std_dev.co2),
     humidity |->
        Max2(0, Min2(1000, BASE_READINGS[room_id].humidity
                              + g[2] * std_dev.humidity)),
     temperature |->
        BASE_READINGS[room_id].temperature + g[3] * std_dev.temperature,
     pm2_5 |-> Max2(0, BASE_READINGS[room_id].pm2_5 + g[4] * std_dev.pm2_5)]

\* simulate_sensor_reading(room_id, counter), lines 131-159; g and r are
\* the random draws
simulate_sensor_reading(room_id, counter, g, r) ==
    IF counter % InjectEvery = 0 /\ room_id = "Lab-B-101"
    THEN [PlainReading(room_id, counter, g) EXCEPT
              !.co2 = 1650 + r[1] * 100,
              !.pm2_5 = 450 + r[2] * 100]
    ELSE IF counter % InjectEvery = 0 /\ room_id = "Lab-C-302"
    THEN [PlainReading(room_id, counter, g) EXCEPT
              !.temperature = 260 + r[1] * 10,
              !.humidity = 200 - r[2] * 50]
    ELSE PlainReading(room_id, counter, g)

\* ---------------------------------------------------------------- the state
NoCall == [op |-> "none", roomId |-> "", metric |-> "", ts |-> 0, value |-> 0]

IdleThread == [pc |-> "idle", roomId |-> "", metric |-> "", ts |-> 0,
               value |-> 0, seen |-> <<>>, ret |-> "None"]

Init ==
    /\ buffers = [k \in {} |-> <<>>]
    /\ ingested = [k \in Keys |-> <<>>]
    /\ now = 0
    /\ call = NoCall
    /\ ret = NoneRet
    /\ sink = NoSink
    /\ view = <<>>
    /\ thr = [t \in Threads |-> IdleThread]
    /\ current_room_index = 0
    /\ reading_count = 1
    /\ new_data_row = NoReading

\* number of push_sample calls made so far
RECURSIVE PushesOver(_)
PushesOver(S) ==
    IF S = {} THEN 0
    ELSE LET k == CHOOSE x \in S : TRUE
         IN  Len(ingested[k]) + PushesOver(S \ {k})

Pushes == PushesOver(Keys)

\* the outcomes the sink can have in a call made on bufs: it runs only
\* when an anomaly is produced
SinkOutcomes(bufs, key) ==
    IF Decision(bufs, key) = "anomaly" THEN BOOLEAN ELSE {TRUE}

\* the values datetime.utcnow() can return in a call made on bufs: the clock
\* is read on line 36 only, and never runs backwards
ClockReads(bufs, key) ==
    IF Decision(bufs, key) = "anomaly" THEN now..MaxNow ELSE {now}

\* ------------------------------------------------------- sequential actions
\* push_sample(roomId, metric, ts, value); now is the last clock reading
push_sample(roomId, metric, ts, value, nw, sinkOk) ==
    LET key == KeyOf(roomId, metric)
        bufs == Evaluated(buffers, roomId, metric, ts, value)
    IN  /\ buffers' = Pushed(buffers, roomId, metric, ts, value)
        /\ ingested' = [ingested EXCEPT ![<<roomId, metric>>] =
                            Append(@, <<ts, value>>)]
        /\ now' = nw
        /\ call' = [op |-> "push", roomId |-> roomId, metric |-> metric,
                    ts |-> ts, value |-> value]
        /\ ret' = check_anomaly(bufs, roomId, metric, nw, sinkOk)
        /\ sink' = SinkOf(bufs, roomId, metric, sinkOk)
        /\ view' = WindowRead(bufs, roomId, metric)
        /\ UNCHANGED <<thr, monVars>>

\* a direct call check_anomaly(roomId, metric)
CheckAnomaly(roomId, metric, nw, sinkOk) ==
    /\ now' = nw
    /\ call' = [NoCall EXCEPT !.op = "check", !.roomId = roomId,
                              !.metric = metric]
    /\ ret' = check_anomaly(buffers, roomId, metric, nw, sinkOk)
    /\ sink' = SinkOf(buffers, roomId, metric, sinkOk)
    /\ view' = WindowRead(buffers, roomId, metric)
    /\ UNCHANGED <<buffers, ingested, thr, monVars>>

Push ==
    /\ Pushes < MaxPushes
    /\ \E k \in Keys, ts \in Times, v \in Values :
          \E nw \in ClockReads(Pushed(buffers, k[1], k[2], ts, v), k),
             ok \in SinkOutcomes(Pushed(buffers, k[1], k[2], ts, v), k) :
              push_sample(k[1], k[2], ts, v, nw, ok)

Check ==
    \E k \in Keys :
        \E nw \in ClockReads(buffers, k), ok \in SinkOutcomes(buffers, k) :
            CheckAnomaly(k[1], k[2], nw, ok)

Next == Push \/ Check

Spec == Init /\ [][Next]_vars

\* ------------------------------------------------------------ a steady feed
\* one reading per second and key, finite values, all inside one window
PushEval ==
    /\ Pushes < MaxEvalPushes
    /\ \E k \in EvalKeys, v \in EvalValues :
          \E nw \in ClockReads(
                      Pushed(buffers, k[1], k[2], Len(ingested[k]), v), k),
             ok \in SinkOutcomes(
                      Pushed(buffers, k[1], k[2], Len(ingested[k]), v), k) :
              push_sample(k[1], k[2], Len(ingested[k]), v, nw, ok)

CheckEval ==
    \E k \in EvalKeys :
        \E nw \in ClockReads(buffers, k), ok \in SinkOutcomes(buffers, k) :
            CheckAnomaly(k[1], k[2], nw, ok)

NextEval == PushEval \/ CheckEval

SpecEval == Init /\ [][NextEval]_vars

\* ------------------------------------------------------ one key, any order
PushOne ==
    /\ Pushes < MaxOnePushes
    /\ \E k \in OneKeys, ts \in Times, v \in OneValues :
          \E nw \in ClockReads(Pushed(buffers, k[1], k[2], ts, v), k),
             ok \in SinkOutcomes(Pushed(buffers, k[1], k[2], ts, v), k) :
              push_sample(k[1], k[2], ts, v, nw, ok)

CheckOne ==
    \E k \in OneKeys :
        \E nw \in ClockReads(buffers, k), ok \in SinkOutcomes(buffers, k) :
            CheckAnomaly(k[1], k[2], nw, ok)

NextOne == PushOne \/ CheckOne

SpecOne == Init /\ [][NextOne]_vars

\* ------------------------------------------- two threads, no lock (line 11)
ThreadKey(t) == KeyOf(thr[t].roomId, thr[t].metric)

\* a thread enters push_sample: lines 14-15
t_call(t, roomId, metric, ts, value) ==
    /\ thr[t].pc \in {"idle", "done"}
    /\ Pushes < MaxConcCalls
    /\ thr' = [thr EXCEPT ![t] = [IdleThread EXCEPT !.pc = "append",
                   !.roomId = roomId, !.metric = metric,
                   !.ts = ts, !.value = value]]
    /\ buffers' = SetDefault(buffers, KeyOf(roomId, metric))
    /\ ingested' = [ingested EXCEPT ![<<roomId, metric>>] =
                        Append(@, <<ts, value>>)]
    /\ UNCHANGED <<now, call, ret, sink, view, monVars>>

\* line 16: buf.append((ts, value))
t_append(t) ==
    /\ thr[t].pc = "append"
    /\ buffers' = [buffers EXCEPT ![ThreadKey(t)] =
                       Append(@, <<thr[t].ts, thr[t].value>>)]
    /\ thr' = [thr EXCEPT ![t].pc = "test"]
    /\ UNCHANGED <<ingested, now, call, ret, sink, view, monVars>>

\* line 19: while buf and buf[0][0] < cutoff
t_test(t) ==
    /\ thr[t].pc = "test"
    /\ thr' = [thr EXCEPT ![t].pc =
                 IF /\ buffers[ThreadKey(t)] # <<>>
                    /\ Stale(buffers[ThreadKey(t)][1], Cutoff(thr[t].ts))
                 THEN "popleft" ELSE "check"]
    /\ UNCHANGED <<buffers, ingested, now, call, ret, sink, view, monVars>>

\* line 20: buf.popleft(), IndexError on an empty deque
t_popleft(t) ==
    /\ thr[t].pc = "popleft"
    /\ IF buffers[ThreadKey(t)] = <<>>
       THEN /\ thr' = [thr EXCEPT ![t].pc = "done", ![t].ret = "raise"]
            /\ UNCHANGED buffers
       ELSE /\ buffers' = [buffers EXCEPT ![ThreadKey(t)] = Tail(@)]
            /\ thr' = [thr EXCEPT ![t].pc = "test"]
    /\ UNCHANGED <<ingested, now, call, ret, sink, view, monVars>>

\* line 21: return check_anomaly(roomId, metric)
t_check(t) ==
    /\ thr[t].pc = "check"
    /\ thr' = [thr EXCEPT ![t].pc = "done",
                 ![t].seen = buffers[ThreadKey(t)],
                 ![t].ret = check_anomaly(buffers, thr[t].roomId,
                                          thr[t].metric, now, TRUE).kind]
    /\ UNCHANGED <<buffers, ingested, now, call, ret, sink, view, monVars>>

ThreadCall ==
    \E t \in Threads, k \in ConcKeys, ts \in Times, v \in ConcValues :
        t_call(t, k[1], k[2], ts, v)

ThreadAppend == \E t \in Threads : t_append(t)

ThreadTest == \E t \in Threads : t_test(t)

ThreadPopleft == \E t \in Threads : t_popleft(t)

ThreadCheck == \E t \in Threads : t_check(t)

NextConc ==
    ThreadCall \/ ThreadAppend \/ ThreadTest \/ ThreadPopleft \/ ThreadCheck

SpecConc == Init /\ [][NextConc]_vars

\* ------------------------------------------- the monitoring loop, one turn
\* one iteration of the while loop, lines 170-206
monitor_iteration(g, r) ==
    LET room_id == ROOM_IDS[(current_room_index % Len(ROOM_IDS)) + 1]
    IN  /\ new_data_row' =
               simulate_sensor_reading(room_id, reading_count, g, r)
        /\ current_room_index' = (current_room_index + 1) % CountCycle
        /\ reading_count' = (reading_count + 1) % CountCycle
        /\ UNCHANGED <<buffers, ingested, now, call, ret, sink, view, thr>>

MonitorLoop ==
    \E g \in Gauss \X Gauss \X Gauss \X Gauss, r \in Ends \X Ends :
        monitor_iteration(g, r)

NextMon == MonitorLoop

SpecMon == Init /\ [][NextMon]_vars /\ WF_vars(MonitorLoop)

\* =================================================================== claims
CallKey == <<call.roomId, call.metric>>

Window == buffers[CallKey]

Count(s, x) == Cardinality({i \in 1..Len(s) : s[i] = x})

Range(s) == {s[i] : i \in 1..Len(s)}

SameSamples(s1, s2) ==
    \A x \in Range(s1) \cup Range(s2) : Count(s1, x) = Count(s2, x)

InRange(s) == s[1] >= call.ts - W_SECONDS

NonDecreasing(s) ==
    \A i \in 1..Len(s) : \A j \in i..Len(s) : s[i][1] <= s[j][1]

WindowExact ==
    /\ CallKey \in DOMAIN buffers
    /\ SameSamples(Window, SelectSeq(ingested[CallKey], InRange))
    /\ \A i \in 1..Len(Window) : InRange(Window[i])

\* C1 as stated: after every push_sample, whatever the order of the
\* timestamps, the window holds exactly the ingested samples with
\* timestamp >= ts - W_SECONDS and none older.
C1_AnyOrder == call.op = "push" => WindowExact

\* C1 amended: when the timestamps pushed for the key are non-decreasing,
\* after every push_sample the window holds exactly the ingested samples
\* with timestamp >= ts - W_SECONDS and none older.
C1_WindowCorrectness ==
    (call.op = "push" /\ NonDecreasing(ingested[CallKey])) => WindowExact

C1_Witness ==
    /\ call.op = "push"
    /\ NonDecreasing(ingested[CallKey])
    /\ Len(ingested[CallKey]) = 3
    /\ Len(Window) = 2
    /\ Window[1][1] = call.ts - W_SECONDS

ThresholdCase ==
    /\ call.op = "push"
    /\ Vals(ingested[CallKey]) = <<10, 10, 10, 100>>
    /\ Window = ingested[CallKey]

\* C2 as stated: the fourth push of the values 10, 10, 10, 100 inside one
\* window returns an anomaly record whose value is 100.
C2_Alarm == ThresholdCase => (ret.kind = "anomaly" /\ ret.value = 100)

\* C2 amended: the fourth push of the values 10, 10, 10, 100 inside one
\* window returns None and the sink is not called: the mean is 32.5 and
\* z*z = 3, which does not exceed Z_THRESHOLD squared.
C2_ThresholdBoundary ==
    ThresholdCase =>
        /\ ret.kind = "None"
        /\ sink.calls = 0
        /\ 2 * SumSeq(Vals(Window)) = 65 * Len(Window)
        /\ Dev(Vals(Window)) * Dev(Vals(Window)) = 3 * VarN(Vals(Window))

C2_Witness == ThresholdCase /\ ret = NoneRet

\* C3: two check_anomaly evaluations of the same window contents of the
\* same key, both producing a record, give the same id at any two
\* wall-clock times.
C3_IdempotentId ==
    [][(/\ ret.kind = "anomaly"
        /\ ret'.kind = "anomaly"
        /\ call'.roomId = call.roomId
        /\ call'.metric = call.metric
        /\ buffers' = buffers)
       => ret'.id = ret.id]_vars

\* C4: a push_sample with a non-finite value returns InvalidSample and
\* leaves the buffers map unchanged.
C4_InvalidSampleRejected ==
    [][(call'.op = "push" /\ ~IsFinite(call'.value))
       => (/\ buffers' = buffers
           /\ ret'.kind = "raise"
           /\ ret'.reason = "InvalidSample")]_vars

\* C5: when the sink call of an invocation failed, the computed record is
\* still what the call returns.
C5_SinkFailureNonFatal ==
    (sink.calls = 1 /\ sink.failed) => ret.kind = "anomaly"

\* C6: a push_sample for one key creates no other key and leaves the
\* window of every other key as it was.
C6_KeyIsolation ==
    [][call'.op = "push" =>
        \A k \in Keys \ {<<call'.roomId, call'.metric>>} :
            /\ (k \in DOMAIN buffers') = (k \in DOMAIN buffers)
            /\ k \in DOMAIN buffers => buffers'[k] = buffers[k]]_vars

C6_Witness ==
    /\ call.op = "push"
    /\ CallKey = <<"A", "co2">>
    /\ call.ts = W_SECONDS + 1
    /\ call.value = 100
    /\ <<"A", "humidity">> \in DOMAIN buffers
    /\ <<"B", "co2">> \in DOMAIN buffers
    /\ buffers[<<"B", "co2">>] = <<<<0, 10>>>>
    /\ buffers[<<"A", "humidity">>] = <<<<0, 10>>>>

Sample(t) == <<thr[t].ts, thr[t].value>>

Serial(t, u) ==
    Pushed(Pushed([k \in {} |-> <<>>], thr[t].roomId, thr[t].metric,
                  thr[t].ts, thr[t].value),
           thr[u].roomId, thr[u].metric, thr[u].ts, thr[u].value)

\* C8: every concurrent call evaluates a window whose last sample is the
\* one it appended, and after two concurrent calls on one key the window
\* is the window of one of their two serial orders.
C8_Serialized ==
    /\ \A t \in Threads :
          (thr[t].pc = "done" /\ thr[t].ret # "raise") =>
              (thr[t].seen # <<>> /\ Last(thr[t].seen) = Sample(t))
    /\ (/\ \A t \in Threads : thr[t].pc = "done"
        /\ Pushes = 2
        /\ ThreadKey(1) = ThreadKey(2))
       => \/ buffers = Serial(1, 2)
          \/ buffers = Serial(2, 1)

ConstantFeed ==
    /\ call.op = "push"
    /\ Len(ingested[CallKey]) >= 3
    /\ Window = ingested[CallKey]
    /\ \A i \in 1..Len(Window) : Window[i][2] = call.value

\* C9: a push_sample that makes the window N >= 3 identical values, all
\* inside the window, returns None.
C9_ZeroVariance == ConstantFeed => ret = NoneRet

C9_Witness == ConstantFeed /\ Len(Window) >= 8 /\ ret = NoneRet

SmallWindow ==
    \/ CallKey \notin DOMAIN buffers
    \/ Len(Window) < 3

\* C10: a call whose post-eviction window holds fewer than 3 samples, or
\* whose key was never ingested, returns None and makes no sink call.
C10_MinimumSamples ==
    (call.op \in {"push", "check"} /\ SmallWindow) =>
        (ret = NoneRet /\ sink.calls = 0)

C10_Witness ==
    /\ call.op = "check"
    /\ CallKey \notin DOMAIN buffers
    /\ \E k \in DOMAIN buffers : Len(buffers[k]) = 2
    /\ ret = NoneRet

\* the key of the call a step makes, its window before and after the step
StepKey == <<call'.roomId, call'.metric>>

Before == IF StepKey \in DOMAIN buffers THEN buffers[StepKey] ELSE <<>>

After == buffers'[StepKey]

Timestamps(s) == [i \in 1..Len(s) |-> s[i][1]]

KeptAtBoundary ==
    \A i \in 1..Len(Before) :
        Before[i][1] = call'.ts - W_SECONDS =>
            Count(After, Before[i]) >= Count(Before, Before[i])

GoneBelowBoundary ==
    \A i \in 1..Len(After) : After[i][1] # call'.ts - W_SECONDS - 1

\* C11 as stated: after a push_sample with timestamp t, in any order of
\* timestamps, a sample of the window with timestamp t - W_SECONDS is still
\* in the window and none with timestamp t - W_SECONDS - 1 is.
C11_AnyOrder ==
    [][call'.op = "push" => (KeptAtBoundary /\ GoneBelowBoundary)]_vars

\* C11 amended: after a push_sample with timestamp t a sample of the window
\* with timestamp t - W_SECONDS is still in the window; when the timestamps
\* pushed for the key are non-decreasing, none with timestamp
\* t - W_SECONDS - 1 is.
C11_BoundaryInclusive ==
    [][call'.op = "push" =>
        /\ KeptAtBoundary
        /\ NonDecreasing(ingested'[StepKey]) => GoneBelowBoundary]_vars

C11_Witness ==
    /\ call.op = "push"
    /\ Timestamps(ingested[CallKey]) = <<0, 1, W_SECONDS + 1>>
    /\ Timestamps(Window) = <<1, W_SECONDS + 1>>

Appended == Append(Before, <<call'.ts, call'.value>>)

\* s without its first k elements
Drop(s, k) == SubSeq(s, k + 1, Len(s))

\* C15: a push_sample turns the window w into w followed by (ts, value)
\* without its longest prefix of samples with timestamp < ts - W_SECONDS;
\* nothing else is removed, reordered or added.
C15_FrontPrefixRemoval ==
    [][call'.op = "push" =>
        \E k \in 0..Len(Before) :
            /\ After = Drop(Appended, k)
            /\ \A i \in 1..k : Appended[i][1] < call'.ts - W_SECONDS
            /\ Appended[k + 1][1] >= call'.ts - W_SECONDS]_vars

C15_Witness ==
    /\ call.op = "push"
    /\ Timestamps(ingested[CallKey]) = <<0, W_SECONDS + 1, 0>>
    /\ Timestamps(Window) = <<W_SECONDS + 1, 0>>

\* C16: for a key whose pushed timestamps are non-decreasing, the window
\* is sorted ascending by timestamp and every sample in it has timestamp
\* >= (timestamp of the last sample) - W_SECONDS.
C16_OrderedWindow ==
    \A k \in DOMAIN buffers :
        (NonDecreasing(ingested[k]) /\ ingested[k] # <<>>) =>
            /\ buffers[k] # <<>>
            /\ NonDecreasing(buffers[k])
            /\ \A i \in 1..Len(buffers[k]) :
                  buffers[k][i][1] >= Last(buffers[k])[1] - W_SECONDS

C16_Witness ==
    \E k \in DOMAIN buffers :
        /\ call.op = "push"
        /\ k = CallKey
        /\ Timestamps(ingested[k]) = <<1, 1, W_SECONDS + 1>>
        /\ Len(buffers[k]) = 3

FrontFresh == view # <<>> /\ view[1][1] >= call.ts - W_SECONDS

NothingStale == \A i \in 1..Len(view) : view[i][1] >= call.ts - W_SECONDS

\* C12 as stated: every push_sample evaluates the window eviction has
\* left, and no sample of that window is older than ts - W_SECONDS.
C12_NeverStale ==
    call.op = "push" => (view = Window /\ NothingStale)

\* C12 amended: every push_sample evaluates the window eviction has left;
\* its first sample is not older than ts - W_SECONDS, and when the
\* timestamps pushed for the key are non-decreasing no sample of it is.
C12_PostEviction ==
    call.op = "push" =>
        /\ view = Window
        /\ FrontFresh
        /\ NonDecreasing(ingested[CallKey]) => NothingStale

C12_Witness ==
    /\ call.op = "push"
    /\ NonDecreasing(ingested[CallKey])
    /\ Len(ingested[CallKey]) = 5
    /\ Len(view) = 3
    /\ view = Window
    /\ Timestamps(view) = <<1, 1, W_SECONDS + 1>>

Square(x) == x * x

\* |z| > 2.5 for the last value of the window w, by the population mean
\* and standard deviation of w: 4 * (n*latest - S)^2 > 25 * (n*Q - S^2)
ScoreExceeds(w) ==
    /\ Len(w) >= 3
    /\ \A i \in 1..Len(w) : w[i][2] # NaN
    /\ LET n == Len(w)
           S == SumSeq([i \in 1..n |-> w[i][2]])
           Q == SumSeq([i \in 1..n |-> w[i][2] * w[i][2]])
       IN  4 * Square(n * w[n][2] - S) > 25 * (n * Q - S * S)

\* C13: one check_anomaly invocation calls the sink once when it produces a
\* record and not at all otherwise; a returned record has been handed to
\* the sink, a None has not, and no invocation calls the sink twice.
C13_SinkHandOff ==
    call.op \in {"push", "check"} =>
        /\ sink.calls \in {0, 1}
        /\ (sink.calls = 1) = ScoreExceeds(view)
        /\ ret.kind = "anomaly" => (sink.calls = 1 /\ ~sink.failed)
        /\ ret.kind = "None" => sink.calls = 0

C13_Witness ==
    /\ call.op = "check"
    /\ ret.kind = "anomaly"
    /\ sink.calls = 1
    /\ Len(view) = 9

\* a second run of the first n calls made for key k, from empty buffers
RECURSIVE Replay(_, _)
Replay(k, n) ==
    IF n = 0 THEN [x \in {} |-> <<>>]
    ELSE Pushed(Replay(k, n - 1), k[1], k[2],
                ingested[k][n][1], ingested[k][n][2])

\* a wall-clock reading the first run never has
OtherClock == MaxNow + 1

\* the result of the last call of the second run, made at OtherClock with
\* the sink behaving as it did in the first run
ReplayRet ==
    check_anomaly(Replay(CallKey, Len(ingested[CallKey])),
                  call.roomId, call.metric, OtherClock, ~sink.failed)

C17_DecisionAndRecord ==
    call.op = "push" =>
        /\ view = Window
        /\ ret.kind = IF ScoreExceeds(Window) THEN "anomaly" ELSE "None"
        /\ ret.kind = "None" => ret = NoneRet
        /\ ret.kind = "anomaly" =>
              /\ ret.tsStart = IsoFormat(Window[1][1])
              /\ ret.tsEnd = IsoFormat(call.ts)
              /\ ret.value = call.value
              /\ ret.roomId = call.roomId
              /\ ret.metric = call.metric
              /\ ret.reason = "rolling-z"

\* C17 without the calls whose sink raised
C17_WhenSinkReturns == sink.failed \/ C17_DecisionAndRecord

\* C18: in every window |z| <= sqrt(n - 1), and a call that evaluates a
\* window of fewer than 8 samples returns None without a sink call.
C18_SmallWindowsSilent ==
    /\ \A k \in DOMAIN buffers :
          AllFinite(Vals(buffers[k])) =>
              Square(Dev(Vals(buffers[k])))
                  <= (Len(buffers[k]) - 1) * VarN(Vals(buffers[k]))
    /\ (call.op \in {"push", "check"} /\ Len(view) < 8) =>
          (ret = NoneRet /\ sink.calls = 0)

C18_Witness ==
    /\ call.op = "push"
    /\ Len(view) = 7
    /\ Vals(view) = <<10, 10, 10, 10, 10, 10, 100>>
    /\ Square(Dev(Vals(view))) = 6 * VarN(Vals(view))
    /\ ret = NoneRet

Read == new_data_row.roomId # ""

Co2Spike ==
    Read /\ new_data_row.roomId = "Lab-B-101" /\ new_data_row.co2 >= 1650

Pm25Spike ==
    Read /\ new_data_row.roomId = "Lab-B-101" /\ new_data_row.pm2_5 >= 450

TemperatureHigh ==
    /\ Read
    /\ new_data_row.roomId = "Lab-C-302"
    /\ new_data_row.temperature >= 260

HumidityLow ==
    Read /\ new_data_row.roomId = "Lab-C-302" /\ new_data_row.humidity <= 200

Injected ==
    \/ Co2Spike /\ Pm25Spike
    \/ TemperatureHigh /\ HumidityLow

\* C19: every reading whose counter is a multiple of 15 carries an injected
\* anomaly, and each of the four injected deviations is eventually
\* produced: the Lab-B-101 co2 and pm2_5 spikes and the Lab-C-302
\* temperature and humidity deviations.
C19_EachParameterTested ==
    /\ []((Read /\ new_data_row.id % InjectEvery = 0) => Injected)
    /\ <>Co2Spike
    /\ <>Pm25Spike
    /\ <>TemperatureHigh
    /\ <>HumidityLow

\* every injection of the loop goes to Lab-C-302
InjectionsAreLabC ==
    (Read /\ new_data_row.id % InjectEvery = 0) =>
        (new_data_row.roomId = "Lab-C-302" /\ TemperatureHigh /\ HumidityLow)

LabCEventually == <>TemperatureHigh /\ <>HumidityLow

====
